---- MODULE Spec2Model ----
(***************************************************************************)
(* A model of the train-step compiler backend                              *)
(* (torch/_dynamo/backends/train_step.py) and of the DTensor fallback      *)
(* parallel mode (torch/distributed/_spmd/parallel_mode.py).               *)
(*                                                                         *)
(* Three specifications share the module's variables:                      *)
(*   SpecRemat   - the _rematerialize_optimizer scope, entered with        *)
(*                 arbitrary arguments around an arbitrary body;           *)
(*   SpecCompile - _compile_fn: preconditions, warm-up, state conversion,  *)
(*                 tracing, and calls of the returned callable;            *)
(*   SpecExpand  - DTensorFallbackMode.expand.                             *)
(*                                                                         *)
(* Objects with identity are modelled by their identity: a parameter is    *)
(* <<"real", i>> or <<"fake", i>>, a per-parameter state record (a dict)   *)
(* is its index in the heap recs.  A dict with string keys is a function   *)
(* whose domain is ordered the way the dict was filled: parameter names    *)
(* are 1..P in registration order, state-leaf names follow LeafOrder.      *)
(***************************************************************************)
EXTENDS Integers, Sequences, FiniteSets, TLC

\* ---------------------------------------------------------------- bounds
MaxParams == 2
MaxBodySteps == 2
MaxInputs == 2
MaxCalls == 2
MaxLeaves == 2
MaxKwargs == 1
Modulus == 3

\* ------------------------------------------------------------ value sets
Names == 1..MaxParams
Real(i) == <<"real", i>>
Fake(i) == <<"fake", i>>
RealKeys == {Real(i) : i \in Names}
FakeKeys == {Fake(i) : i \in Names}
Keys == RealKeys \cup FakeKeys

Devices == {"cpu", "cuda"}
LeafOrder == <<"step", "exp_avg">>
LeafNames == {LeafOrder[i] : i \in 1..Len(LeafOrder)}
\* shape and dtype of a tensor, as the pairs an optimizer produces
Metas == {<<"scalar", "f32">>, <<"vec", "f64">>}

Tensor(fake, val, meta, dev) ==
  [fake |-> fake, val |-> val, shape |-> meta[1], dtype |-> meta[2], dev |-> dev]

EmptyMap == [x \in {} |-> 0]
\* the functions from a subset of D to R: the dicts with keys in D
Dicts(D, R) == UNION {[S -> R] : S \in SUBSET D}

VARIABLES
  opt_state,      \* opt.state: parameter identity -> record id
  opt_params,     \* opt.param_groups[0]["params"]
  recs,           \* the heap of state records: record id -> (leaf name -> tensor)
  orig_states,    \* _rematerialize_optimizer's local orig_states
  orig_params,    \* _rematerialize_optimizer's local orig_params
  pc,             \* where the program is
  rm,             \* the running scope: its arguments, and what was observed of it
  cf,             \* _compile_fn's inputs and locals
  ex              \* expand's inputs and outputs

vars == <<opt_state, opt_params, recs, orig_states, orig_params, pc, rm, cf, ex>>

\* ------------------------------------------------- _rematerialize_optimizer

\* list(params.values()): the dict's values in the dict's order
RECURSIVE ValuesFrom(_, _)
ValuesFrom(d, n) ==
  IF n > MaxParams THEN <<>>
  ELSE IF n \in DOMAIN d THEN <<d[n]>> \o ValuesFrom(d, n + 1)
  ELSE ValuesFrom(d, n + 1)
DictValues(d) == ValuesFrom(d, 1)

\* d[k] = v
SetItem(d, k, v) == [x \in DOMAIN d \cup {k} |-> IF x = k THEN v ELSE d[x]]

\* dict.update(other) keeping the receiver's entry on a clash
DictUpdateKeepCurrent(cur, other) ==
  [k \in DOMAIN cur \cup DOMAIN other |-> IF k \in DOMAIN cur THEN cur[k] ELSE other[k]]

\* dict.update(other): other's entries over cur's, cur's other keys kept
DictUpdate(cur, other) ==
  [k \in DOMAIN cur \cup DOMAIN other |-> IF k \in DOMAIN other THEN other[k] ELSE cur[k]]

\* the names of named_states the loop of lines 29-31 cannot look up in params
MissingNames(named_states, params) ==
  {n \in DOMAIN named_states : n \notin DOMAIN params}

\* the names the loop assigns before params[n] raises KeyError (all, if none does)
MergedNames(named_states, params) ==
  {n \in DOMAIN named_states : \A m \in MissingNames(named_states, params) : n < m}

\* lines 28-31: opt.state[params[n]] = named_states[n], in the dict's order
\* (None and {} are both falsy: EmptyMap stands for either)
MergeNamedStates(state, named_states, params) ==
  LET ns == MergedNames(named_states, params)
      hit(k) == {n \in ns : params[n] = k}
      last(k) == CHOOSE n \in hit(k) : \A m \in hit(k) : m <= n
  IN [k \in DOMAIN state \cup {params[n] : n \in ns} |->
        IF hit(k) # {} THEN named_states[last(k)] ELSE state[k]]

\* lines 27-37 when no lookup fails: save, merge, rebind the parameter list
RematEnter(named_states, params) ==
  /\ orig_states' = opt_state
  /\ opt_state' = MergeNamedStates(opt_state, named_states, params)
  /\ orig_params' = opt_params
  /\ opt_params' = DictValues(params)

\* a scope without try/finally: an exception skips the restore
RematExitNoFinally(exc) ==
  /\ opt_params' = IF exc THEN opt_params ELSE orig_params
  /\ opt_state' = IF exc THEN opt_state ELSE DictUpdate(opt_state, orig_states)

\* a scope that puts the saved map back instead of merging it
RematExitReplace(exc) ==
  /\ opt_params' = orig_params
  /\ opt_state' = orig_states

\* lines 41-43, the finally block; exc: whether the body raised
RematExit(exc) ==
  /\ opt_params' = orig_params
  /\ opt_state' = DictUpdate(opt_state, orig_states)

\* ------------------------------------------------ the scope on its own
NoRm == [named_states |-> EmptyMap, params |-> EmptyMap, entry_state |-> EmptyMap,
         entry_params |-> <<>>, body_end_state |-> EmptyMap, raised |-> FALSE,
         steps |-> 0]
NoCf == [has_fake_params |-> FALSE, n_inputs |-> 0, mode_valid |-> FALSE, P |-> 0,
         dev |-> "cpu", pval |-> <<>>, allow_non_fake_inputs |-> FALSE,
         named_states_len |-> 0, named_states |-> EmptyMap, named_states_flat |-> <<>>,
         named_states_spec |-> <<>>,
         full_fake_args |-> <<>>, result |-> "none", warmups |-> 0, traces |-> 0,
         bad_out |-> "none", init_state |-> EmptyMap, init_recs |-> <<>>,
         init_params |-> <<>>, init_pval |-> <<>>, pre_convert |-> <<>>,
         calls |-> 0, ref_p |-> <<>>, ref_s |-> <<>>, last_lifted |-> <<>>]
NoEx == [params |-> <<>>, states |-> <<>>, args |-> <<>>, kwargs |-> <<>>,
         overrides |-> EmptyMap, inps |-> <<>>, schemas |-> <<>>, result |-> "none"]

ATensor == Tensor(FALSE, 1, <<"vec", "f64">>, "cuda")
ARecord == [n \in {"exp_avg"} |-> ATensor]

\* the params dicts handed in: a name's parameter is the optimizer's own object,
\* a new object of its own, or the first name's new object (a shared parameter,
\* as named_parameters(remove_duplicate=False) lists it)
NewParamDicts ==
  {d \in Dicts(Names, Keys) : \A n \in DOMAIN d : d[n] \in {Real(n), Fake(n), Fake(1)}}

\* a populated or empty optimizer over real parameters (Real(i) -> record i), a
\* further record per name for named_states to hand in, the new parameter objects
InitRemat ==
  /\ recs = [i \in 1..(2 * MaxParams) |-> ARecord]
  /\ \E S \in SUBSET Names : opt_state = [k \in {Real(i) : i \in S} |-> k[2]]
  /\ opt_params = [i \in Names |-> Real(i)]
  /\ orig_states = EmptyMap
  /\ orig_params = <<>>
  /\ pc = "rm_idle"
  /\ \E N \in SUBSET Names, ps \in NewParamDicts :
       rm = [NoRm EXCEPT !.named_states = [n \in N |-> MaxParams + n], !.params = ps]
  /\ cf = NoCf
  /\ ex = NoEx

\* entering the scope: lines 24-37 run to the yield
ScopeEnter ==
  /\ pc = "rm_idle"
  /\ MissingNames(rm.named_states, rm.params) = {}
  /\ RematEnter(rm.named_states, rm.params)
  /\ pc' = "rm_body"
  /\ rm' = [rm EXCEPT !.entry_state = opt_state, !.entry_params = opt_params]
  /\ UNCHANGED <<recs, cf, ex>>

\* entering fails: params[n] raises KeyError at line 31, before the try
ScopeEnterKeyError ==
  /\ pc = "rm_idle"
  /\ MissingNames(rm.named_states, rm.params) # {}
  /\ orig_states' = opt_state
  /\ opt_state' = MergeNamedStates(opt_state, rm.named_states, rm.params)
  /\ pc' = "rm_enter_failed"
  /\ rm' = [rm EXCEPT !.entry_state = opt_state, !.entry_params = opt_params]
  /\ UNCHANGED <<opt_params, orig_params, recs, cf, ex>>

\* the body stores a new record under a key: opt.state[k] = {...}
BodySetItem(k) ==
  /\ pc = "rm_body"
  /\ rm.steps < MaxBodySteps
  /\ recs' = Append(recs, ARecord)
  /\ opt_state' = SetItem(opt_state, k, Len(recs) + 1)
  /\ rm' = [rm EXCEPT !.steps = @ + 1]
  /\ UNCHANGED <<opt_params, orig_states, orig_params, pc, cf, ex>>

\* the body deletes a key: del opt.state[k]
BodyDelItem(k) ==
  /\ pc = "rm_body"
  /\ rm.steps < MaxBodySteps
  /\ k \in DOMAIN opt_state
  /\ opt_state' = [x \in DOMAIN opt_state \ {k} |-> opt_state[x]]
  /\ rm' = [rm EXCEPT !.steps = @ + 1]
  /\ UNCHANGED <<opt_params, recs, orig_states, orig_params, pc, cf, ex>>

\* the body updates a record's tensors in place, as an optimizer step does
BodyMutate(k) ==
  /\ pc = "rm_body"
  /\ rm.steps < MaxBodySteps
  /\ k \in DOMAIN opt_state
  /\ recs' = [recs EXCEPT ![opt_state[k]] =
                [n \in DOMAIN @ |-> [@[n] EXCEPT !.val = (@ + 1) % Modulus]]]
  /\ rm' = [rm EXCEPT !.steps = @ + 1]
  /\ UNCHANGED <<opt_state, opt_params, orig_states, orig_params, pc, cf, ex>>

\* the body ends, by returning or by raising; the finally block runs
ScopeExit(exc) ==
  /\ pc = "rm_body"
  /\ RematExit(exc)
  /\ pc' = "rm_exited"
  /\ rm' = [rm EXCEPT !.body_end_state = opt_state, !.raised = exc]
  /\ UNCHANGED <<recs, orig_states, orig_params, cf, ex>>

NextRemat ==
  \/ ScopeEnter
  \/ ScopeEnterKeyError
  \/ \E k \in Keys : BodySetItem(k)
  \/ \E k \in Keys : BodyDelItem(k)
  \/ \E k \in Keys : BodyMutate(k)
  \/ \E exc \in BOOLEAN : ScopeExit(exc)

SpecRemat == InitRemat /\ [][NextRemat]_vars

\* ---------------------------------------------------- claims on the scope

\* C1 as stated: after the scope is left, the optimizer's state map is what it was
\* before entry: the same keys and the same record for each key.
C1_StateMapIdenticalAfterExit ==
  pc = "rm_exited" => opt_state = rm.entry_state

\* C1, amended: after the scope is left (normally or by an exception of the body)
\* the state map is the map the body left with the entries saved at entry put back
\* over it: every key saved at entry maps to its saved record, every other key the
\* merge step or the body added is still there with the record it had when the
\* body ended, and there is no further key.
C1_SavedMergedOverCurrent ==
  pc = "rm_exited" =>
    /\ DOMAIN opt_state = DOMAIN rm.entry_state \cup DOMAIN rm.body_end_state
    /\ \A k \in DOMAIN rm.entry_state : opt_state[k] = rm.entry_state[k]
    /\ \A k \in DOMAIN rm.body_end_state \ DOMAIN rm.entry_state :
         opt_state[k] = rm.body_end_state[k]

\* a populated optimizer, a body that raised, and an added entry that stayed
C1_Witness ==
  /\ pc = "rm_exited"
  /\ rm.raised
  /\ rm.entry_state # EmptyMap
  /\ DOMAIN opt_state # DOMAIN rm.entry_state

\* C2: on every exit from the scope the parameter group's list is the list bound
\* before entry, and inside the body it is the new parameters' values.
C2_ParamListRestored ==
  /\ pc = "rm_exited" => opt_params = rm.entry_params
  /\ pc = "rm_body" => opt_params = DictValues(rm.params)

\* the body raised, the list had been rebound to other parameters, and it is back
C2_Witness ==
  /\ pc = "rm_exited"
  /\ rm.raised
  /\ DictValues(rm.params) # rm.entry_params
  /\ opt_params = rm.entry_params

\* C3: no entry is lost: every key of the state map at entry is in the map after
\* exit with the record saved at entry, also when the body raised and when the
\* merge step or the body overwrote or deleted the key.
C3_NoEntryLost ==
  pc = "rm_exited" =>
    \A k \in DOMAIN rm.entry_state :
      k \in DOMAIN opt_state /\ opt_state[k] = rm.entry_state[k]

\* the body raised after a saved key was deleted or overwritten in the scope
C3_Witness ==
  /\ pc = "rm_exited"
  /\ rm.raised
  /\ \E k \in DOMAIN rm.entry_state :
       \/ k \notin DOMAIN rm.body_end_state
       \/ rm.body_end_state[k] # rm.entry_state[k]

\* ------------------------------------------------------------ _compile_fn

\* lines 63-68: the error the precondition checks raise, or "none"
\* (a first input that is no fake tensor at all fails at line 65 already)
PreconditionErrorNoParamCheck(c) ==
  IF c.n_inputs = 0 THEN "PreconditionError"
  ELSE IF ~c.mode_valid THEN "PreconditionError"
  ELSE "none"

PreconditionError(c) ==
  IF c.has_fake_params THEN "PreconditionError"
  ELSE IF c.n_inputs = 0 THEN "PreconditionError"
  ELSE IF ~c.mode_valid THEN "PreconditionError"
  ELSE "none"

\* fakeify_inputs, lines 70-76: the placeholder made of a real tensor
FakeOf(id) == <<"fake_of", id>>
FakeifyInputs(ids) == [i \in 1..Len(ids) |-> FakeOf(ids[i])]

\* lines 81-87: the flattened real parameters/buffers, and the dict of placeholders
\* functional_call unflattens from their placeholders
ParamsFlat(P) == [i \in 1..P |-> Real(i)]
FakeParamsDict(P) == [i \in 1..P |-> Fake(i)]
FakeInputs(n) == [j \in 1..n |-> FakeOf(<<"arg", j>>)]

\* a functional call that returns whatever the body returned
OutputCheckMissing(out) == "ok"

\* lines 105-109 and 173-177: what functional_call(_2) does with the body's output
OutputCheck(out) == IF out = "bare" THEN "RuntimeError" ELSE "ok"

\* the tensors an optimizer step may leave in a state record during the warm-up:
\* placeholders (no data) or real tensors holding a first step's value
LeafChoices ==
  {Tensor(f, IF f THEN 0 ELSE 1, m, d) : f \in BOOLEAN, m \in Metas, d \in Devices}
RecordTemplates == Dicts(LeafNames, LeafChoices)

\* a pre-existing real state record of an optimizer that has stepped before
PreRecord == [n \in {"exp_avg"} |-> Tensor(FALSE, 1, <<"vec", "f64">>, "cuda")]

InitCompile ==
  \E hf \in BOOLEAN, n \in 0..MaxInputs, mv \in BOOLEAN, P \in 1..MaxParams,
     dev \in Devices, pre \in BOOLEAN :
    /\ n = 0 => ~mv
    /\ recs = IF pre THEN [i \in 1..P |-> PreRecord] ELSE <<>>
    /\ opt_state = IF pre THEN [k \in {Real(i) : i \in 1..P} |-> k[2]] ELSE EmptyMap
    /\ opt_params = ParamsFlat(P)
    /\ orig_states = EmptyMap
    /\ orig_params = <<>>
    /\ pc = "cf_start"
    /\ rm = NoRm
    /\ cf = [NoCf EXCEPT !.has_fake_params = hf, !.n_inputs = n, !.mode_valid = mv,
                         !.P = P, !.dev = dev,
                         !.pval = [i \in 1..P |-> i % Modulus],
                         !.init_pval = [i \in 1..P |-> i % Modulus],
                         !.init_state = opt_state, !.init_recs = recs,
                         !.init_params = opt_params]
    /\ ex = NoEx

\* lines 61-89: the precondition checks; past them, the parameters are flattened
CompileStart ==
  /\ pc = "cf_start"
  /\ LET err == PreconditionError(cf)
     IN /\ pc' = IF err = "none" THEN "cf_ready" ELSE "cf_raised"
        /\ cf' = [cf EXCEPT !.result = err]
  /\ UNCHANGED <<opt_state, opt_params, recs, orig_states, orig_params, rm, ex>>

\* lines 129-130 up to the body: the mode is made permissive and functional_call
\* enters _rematerialize_optimizer(opt, None, _params_dict)
WarmupEnter ==
  /\ pc = "cf_ready"
  /\ RematEnter(EmptyMap, FakeParamsDict(cf.P))
  /\ cf' = [cf EXCEPT !.allow_non_fake_inputs = TRUE, !.warmups = @ + 1]
  /\ pc' = "cf_warm_body"
  /\ UNCHANGED <<recs, rm, ex>>

\* the sequence s restricted to the indices in S, in order
RECURSIVE Pick(_, _, _)
Pick(s, S, i) ==
  IF i > Len(s) THEN <<>>
  ELSE IF i \in S THEN <<s[i]>> \o Pick(s, S, i + 1)
  ELSE Pick(s, S, i + 1)

\* line 103, the warm-up's optimizer step: for the parameters of the bound list it
\* steps (those with a gradient), opt.state[p] becomes a new record of the
\* optimizer's layout; the module runs on the rebound placeholders, so no real
\* parameter is written
WarmupOptStep(tmpl, S) ==
  /\ pc = "cf_warm_body"
  /\ S # {} /\ S \subseteq 1..Len(opt_params)
  /\ LET keys == Pick(opt_params, S, 1)
     IN /\ recs' = recs \o [j \in 1..Len(keys) |-> tmpl]
        /\ opt_state' = [k \in DOMAIN opt_state \cup {keys[j] : j \in 1..Len(keys)} |->
                           IF \E j \in 1..Len(keys) : keys[j] = k
                           THEN Len(recs) + (CHOOSE j \in 1..Len(keys) : keys[j] = k)
                           ELSE opt_state[k]]
  /\ pc' = "cf_warm_ran"
  /\ UNCHANGED <<opt_params, orig_states, orig_params, rm, cf, ex>>

\* lines 134-141: one record after the conversion loop
ConvertRecord(rec, dev) ==
  [l \in DOMAIN rec |->
     LET t == IF rec[l].fake
              THEN [fake |-> FALSE, val |-> 0, shape |-> rec[l].shape,
                    dtype |-> rec[l].dtype, dev |-> dev]
              ELSE rec[l]
     IN [t EXCEPT !.val = 0]]

\* the record ids opt.state holds
StateRecords(state) == {state[k] : k \in DOMAIN state}

\* lines 100-109 and 130-131: the warm-up body ends (out: "tuple", "bare" or
\* "raise"); the scope is left, the output is checked, and only if nothing was
\* raised is the mode made strict again
WarmupReturn(out) ==
  /\ pc \in {"cf_warm_body", "cf_warm_ran"}
  /\ RematExit(out = "raise")
  /\ LET err == IF out = "raise" THEN "BodyError"
                ELSE IF OutputCheck(out) = "ok" THEN "none" ELSE OutputCheck(out)
     IN /\ pc' = IF err = "none" THEN "cf_convert" ELSE "cf_raised"
        /\ cf' = [cf EXCEPT !.result = err,
                            !.allow_non_fake_inputs = IF err = "none" THEN FALSE ELSE @,
                            !.bad_out = IF out = "bare" THEN "warmup" ELSE @]
  /\ UNCHANGED <<recs, orig_states, orig_params, rm, ex>>

\* lines 134-141: every leaf of every record of opt.state is made real and zeroed
ConvertStates ==
  /\ pc = "cf_convert"
  /\ recs' = [r \in DOMAIN recs |->
                IF r \in StateRecords(opt_state) THEN ConvertRecord(recs[r], cf.dev)
                ELSE recs[r]]
  /\ cf' = [cf EXCEPT !.pre_convert = recs]
  /\ pc' = "cf_build"
  /\ UNCHANGED <<opt_state, opt_params, orig_states, orig_params, rm, ex>>

\* pytree.tree_flatten of a dict of state records, lines 149 and 85: the leaves'
\* places in dict order, names first, then each record's leaves
RECURSIVE LeavesOf(_, _, _)
LeavesOf(n, rec, i) ==
  IF i > Len(LeafOrder) THEN <<>>
  ELSE IF LeafOrder[i] \in DOMAIN rec THEN <<<<n, LeafOrder[i]>>>> \o LeavesOf(n, rec, i + 1)
  ELSE LeavesOf(n, rec, i + 1)

RECURSIVE SpecFrom(_, _, _)
SpecFrom(ns, heap, n) ==
  IF n > MaxParams THEN <<>>
  ELSE IF n \in DOMAIN ns THEN LeavesOf(n, heap[ns[n]], 1) \o SpecFrom(ns, heap, n + 1)
  ELSE SpecFrom(ns, heap, n + 1)

\* the reconstruction descriptor: the (name, leaf) of each position
TreeSpec(ns, heap) == SpecFrom(ns, heap, 1)
\* the flat sequence: the tensor at each position, named by where it lives
TreeFlatten(ns, heap) ==
  LET sp == TreeSpec(ns, heap)
  IN [i \in 1..Len(sp) |-> <<"state", ns[sp[i][1]], sp[i][2]>>]

\* lines 143-147: the records the warm-up left under the placeholder parameters
NamedStates(P, state) ==
  [n \in {m \in 1..P : Fake(m) \in DOMAIN state} |-> state[Fake(n)]]

\* lines 143-152: named_states, its flattening, and the trace's inputs
BuildNamedStates ==
  /\ pc = "cf_build"
  /\ LET ns == NamedStates(cf.P, opt_state)
         flat == TreeFlatten(ns, recs)
     IN cf' = [cf EXCEPT !.named_states = ns,
                         !.named_states_flat = flat,
                         !.named_states_spec = TreeSpec(ns, recs),
                         !.named_states_len = Len(flat),
                         !.full_fake_args =
                            DictValues(FakeParamsDict(cf.P)) \o FakeifyInputs(flat)
                              \o FakeInputs(cf.n_inputs)]
  /\ pc' = "cf_trace"
  /\ UNCHANGED <<opt_state, opt_params, recs, orig_states, orig_params, rm, ex>>

\* lines 163-167 (and 97-99 with named_states_len = 0): the three slices
SplitLifted(lifted, P, S) ==
  [params |-> SubSeq(lifted, 1, P),
   states |-> SubSeq(lifted, P + 1, P + S),
   user |-> SubSeq(lifted, P + S + 1, Len(lifted))]

\* pytree.tree_unflatten(seq, spec) for the dict of records: (name, leaf) -> element
Unflatten(seq, spec) ==
  [ad \in {spec[i] : i \in 1..Len(spec)} |->
     seq[CHOOSE i \in 1..Len(spec) : spec[i] = ad]]

\* the placeholder tensor fakeify_inputs makes of the real tensor at a place
PlaceholderOf(id, heap) == [heap[id[2][2]][id[2][3]] EXCEPT !.fake = TRUE]

\* line 179 up to the body: make_fx calls functional_call_2 on full_fake_args, which
\* unflattens the state placeholders into new records and enters
\* _rematerialize_optimizer(opt, _named_states_dict, _params_dict)
TraceEnter ==
  /\ pc = "cf_trace"
  /\ LET sl == SplitLifted(cf.full_fake_args, cf.P, cf.named_states_len)
         leaves == Unflatten(sl.states, cf.named_states_spec)
         owners == DOMAIN cf.named_states
         order == Pick([i \in 1..MaxParams |-> i], owners, 1)
         temp(n) == [l \in {ad[2] : ad \in {x \in DOMAIN leaves : x[1] = n}} |->
                       PlaceholderOf(leaves[<<n, l>>], recs)]
         ns == [n \in owners |->
                  Len(recs) + (CHOOSE j \in 1..Len(order) : order[j] = n)]
     IN /\ recs' = recs \o [j \in 1..Len(order) |-> temp(order[j])]
        /\ RematEnter(ns, [i \in 1..Len(sl.params) |-> sl.params[i]])
  /\ cf' = [cf EXCEPT !.traces = @ + 1]
  /\ pc' = "cf_trace_body"
  /\ UNCHANGED <<rm, ex>>

\* lines 168-207: the traced body ends; the scope is left and the output checked;
\* if nothing was raised the graph is functionalized and the callable returned,
\* closing over params_flat and named_states_flat
TraceReturn(out) ==
  /\ pc = "cf_trace_body"
  /\ RematExit(out = "raise")
  /\ LET err == IF out = "raise" THEN "BodyError"
                ELSE IF OutputCheck(out) = "ok" THEN "none" ELSE OutputCheck(out)
         flat == cf.named_states_flat
     IN /\ pc' = IF err = "none" THEN "cf_compiled" ELSE "cf_raised"
        /\ cf' = [cf EXCEPT !.result = IF err = "none" THEN "callable" ELSE err,
                            !.bad_out = IF out = "bare" THEN "trace" ELSE @,
                            !.ref_p = cf.pval,
                            !.ref_s = [i \in 1..Len(flat) |-> recs[flat[i][2]][flat[i][3]].val]]
  /\ UNCHANGED <<recs, orig_states, orig_params, rm, ex>>

\* ---------------------------------------------------- the returned callable

RECURSIVE SumSeq(_)
SumSeq(q) == IF q = <<>> THEN 0 ELSE Head(q) + SumSeq(Tail(q))

\* the training step the module runs (line 171), as a function of the values it
\* reads: every state leaf and every parameter is updated from its own old value,
\* its owner's position and the runtime arguments
TrainStep(pv, sd, args) ==
  LET a == SumSeq(args)
      sn == [ad \in DOMAIN sd |-> (sd[ad] + a + ad[1]) % Modulus]
      leafsum(i) == SumSeq([k \in 1..Len(LeafOrder) |->
                      IF <<i, LeafOrder[k]>> \in DOMAIN sn THEN sn[<<i, LeafOrder[k]>>] ELSE 0])
  IN [p |-> [i \in DOMAIN pv |-> (pv[i] + 1 + a + leafsum(i)) % Modulus], s |-> sn]

\* the functionalized graph of functional_call_2 run on lifted values: the slices
\* of lines 163-167, the step, and the new value of each parameter/state position
\* (what the copy-back epilogue writes)
GraphRun(vals, P, spec) ==
  LET sl == SplitLifted(vals, P, Len(spec))
      res == TrainStep([i \in 1..P |-> sl.params[i]], Unflatten(sl.states, spec), sl.user)
  IN [i \in 1..(P + Len(spec)) |-> IF i <= P THEN res.p[i] ELSE res.s[spec[i - P]]]

\* a callable that prepends the state sequence before the parameter sequence
CallArgsStatesFirst(params_flat, named_states_flat, runtime_args) ==
  named_states_flat \o params_flat \o runtime_args

\* lines 203-205: the arguments call_without_params passes to the graph
CallArgs(params_flat, named_states_flat, runtime_args) ==
  params_flat \o named_states_flat \o runtime_args

\* the value a tensor holds
ValueAt(id, pval, heap, rt) ==
  IF id[1] = "real" THEN pval[id[2]]
  ELSE IF id[1] = "state" THEN heap[id[2]][id[3]].val
  ELSE rt[id[2]]

\* lines 201-205: one call of the compiled callable with runtime arguments rt; the
\* epilogue copies each new value into the tensor passed at its position
Call(rt) ==
  /\ pc = "cf_compiled"
  /\ cf.calls < MaxCalls
  /\ \E ids \in {CallArgs(ParamsFlat(cf.P), cf.named_states_flat,
                           [j \in 1..Len(rt) |-> <<"arg", j>>])} :
     \E new \in {GraphRun([i \in 1..Len(ids) |-> ValueAt(ids[i], cf.pval, recs, rt)],
                           cf.P, cf.named_states_spec)} :
     \E ref \in {TrainStep(cf.ref_p, Unflatten(cf.ref_s, cf.named_states_spec), rt)} :
       LET written(id) == {i \in 1..Len(new) : ids[i] = id}
           newval(id, old) ==
             IF written(id) = {} THEN old
             ELSE new[CHOOSE i \in written(id) : \A m \in written(id) : m <= i]
       IN /\ recs' = [r \in DOMAIN recs |->
                        [l \in DOMAIN recs[r] |->
                           [recs[r][l] EXCEPT !.val = newval(<<"state", r, l>>, @)]]]
          /\ cf' = [cf EXCEPT !.pval = [i \in 1..cf.P |-> newval(Real(i), cf.pval[i])],
                              !.calls = @ + 1,
                              !.last_lifted = ids,
                              !.ref_p = ref.p,
                              !.ref_s = [i \in 1..Len(cf.named_states_spec) |->
                                           ref.s[cf.named_states_spec[i]]]]
  /\ UNCHANGED <<opt_state, opt_params, orig_states, orig_params, pc, rm, ex>>

Outs == {"tuple", "bare", "raise"}

NextCompile ==
  \/ CompileStart
  \/ WarmupEnter
  \/ \E tmpl \in RecordTemplates, S \in SUBSET (1..MaxParams) : WarmupOptStep(tmpl, S)
  \/ \E out \in Outs : WarmupReturn(out)
  \/ ConvertStates
  \/ BuildNamedStates
  \/ TraceEnter
  \/ \E out \in Outs : TraceReturn(out)
  \/ \E a \in 0..1 : Call([j \in 1..cf.n_inputs |-> (a + j) % Modulus])

SpecCompile == InitCompile /\ [][NextCompile]_vars

\* -------------------------------------------------- claims on _compile_fn

\* the real tensor a trace input stands for
Slot(id) == IF id[1] = "fake" THEN Real(id[2]) ELSE id[2]

\* the values the closed-over state sequence holds
ClosedStateValues ==
  [i \in 1..Len(cf.named_states_flat) |->
     recs[cf.named_states_flat[i][2]][cf.named_states_flat[i][3]].val]

\* C4: the callable passes the graph the closed-over parameter sequence, then the
\* closed-over state sequence, then the runtime arguments, position for position
\* the inputs the graph was traced with, and after N calls the closed-over
\* sequences hold the values N runs of the training step produce from the values
\* the sequences held when the callable was returned.
C4_CallingConvention ==
  pc = "cf_compiled" =>
    /\ cf.pval = cf.ref_p
    /\ ClosedStateValues = cf.ref_s
    /\ cf.calls > 0 =>
         /\ Len(cf.last_lifted) = Len(cf.full_fake_args)
         /\ \A i \in 1..Len(cf.last_lifted) : Slot(cf.full_fake_args[i]) = cf.last_lifted[i]
         /\ \A i \in 1..cf.P : cf.last_lifted[i] = Real(i)
         /\ \A i \in 1..cf.named_states_len :
              cf.last_lifted[cf.P + i] = cf.named_states_flat[i]

\* two calls were made on a callable that closes over parameters and state leaves
C4_Witness ==
  /\ pc = "cf_compiled"
  /\ cf.calls = 2
  /\ cf.named_states_len >= 2
  /\ cf.P >= 2
  /\ cf.pval # cf.init_pval

\* C6 as stated: after the warm-up of a fresh optimizer every leaf of every record
\* of the state map is a real all-zero tensor with the shape, dtype and device of
\* the placeholder leaf it replaced.
C6_ZeroInitLikePlaceholder ==
  (pc = "cf_build" /\ cf.init_state = EmptyMap) =>
    \A k \in DOMAIN opt_state : \A l \in DOMAIN recs[opt_state[k]] :
      LET t == recs[opt_state[k]][l]
          ph == cf.pre_convert[opt_state[k]][l]
      IN /\ ~t.fake
         /\ t.val = 0
         /\ ph.fake => (t.shape = ph.shape /\ t.dtype = ph.dtype /\ t.dev = ph.dev)

\* C7: a body that returns something other than a tuple or list makes the
\* compilation fail with the output-shape RuntimeError and no callable is
\* returned, whether the warm-up call or the traced call saw the output.
C7_OutputShapeError ==
  cf.bad_out # "none" =>
    /\ pc = "cf_raised"
    /\ cf.result = "RuntimeError"
    /\ cf.calls = 0

\* the traced call, after a good warm-up, saw the bad output
C7_Witness ==
  /\ cf.bad_out = "trace"
  /\ cf.warmups = 1
  /\ cf.result = "RuntimeError"

\* C8 as stated: once the warm-up has finished, every real parameter and every
\* real optimizer-state tensor that existed before the compilation holds the value
\* it had before.
C8_WarmupLeavesRealDataAlone ==
  (pc \in {"cf_build", "cf_trace", "cf_trace_body"} \/ (pc = "cf_compiled" /\ cf.calls = 0)) =>
    /\ cf.pval = cf.init_pval
    /\ \A r \in DOMAIN cf.init_recs : \A l \in DOMAIN cf.init_recs[r] :
         recs[r][l].val = cf.init_recs[r][l].val

\* C9: a violated precondition makes _compile_fn raise before the warm-up call and
\* before any trace: the optimizer's state map and parameter list are as on entry
\* and no callable is returned.
C9_PreconditionsAbortEarly ==
  (cf.has_fake_params \/ cf.n_inputs = 0 \/ ~cf.mode_valid) =>
    /\ pc \in {"cf_start", "cf_raised"}
    /\ pc = "cf_raised" => cf.result = "PreconditionError"
    /\ cf.warmups = 0 /\ cf.traces = 0 /\ cf.calls = 0
    /\ opt_state = cf.init_state
    /\ opt_params = cf.init_params
    /\ recs = cf.init_recs

\* a populated optimizer, a module with placeholder parameters, and the raise
C9_Witness ==
  /\ pc = "cf_raised"
  /\ cf.has_fake_params /\ cf.n_inputs > 0 /\ cf.mode_valid
  /\ cf.init_state # EmptyMap
  /\ cf.result = "PreconditionError"

\* C10 as stated: allow_non_fake_inputs is true only while the warm-up call runs,
\* and false again on every exit from _compile_fn, by return or by raise.
C10_PermissiveOnlyInWarmup ==
  cf.allow_non_fake_inputs => pc \in {"cf_warm_body", "cf_warm_ran"}

\* ------------------------------------------------ DTensorFallbackMode.expand

ShardSchema == <<"Shard", 0>>          \* Schema(mesh, [Shard(0)]), line 60
ReplicateSchema == <<"Replicate">>     \* Schema(mesh, [Replicate()]), line 62
OverridePlacements == {<<"Replicate">>, <<"Shard", 1>>}
\* torch.empty(0): a new tensor, no leaf of the inputs
EmptyTensor == [id |-> 0, tensor |-> TRUE]

\* lines 66-69: one flattened parameter or buffer
ParamEntry(p) == [inp |-> p, schema |-> ReplicateSchema]

\* lines 71-77: one flattened state leaf
StateEntry(o) ==
  IF o.tensor THEN [inp |-> o, schema |-> ReplicateSchema]
  ELSE [inp |-> EmptyTensor, schema |-> ReplicateSchema]

\* an argument loop that shards whatever it is given and ignores the registry
ArgEntryNoOverride(a, overrides) == [inp |-> a, schema |-> ShardSchema]

\* lines 79-95: one flattened runtime argument
ArgEntry(a, overrides) ==
  IF a.tensor
  THEN [inp |-> a,
        schema |-> IF a.id \in DOMAIN overrides THEN overrides[a.id] ELSE ShardSchema]
  ELSE [inp |-> EmptyTensor, schema |-> ShardSchema]

\* line 57: positional arguments, then keyword values, flattened
FlatArgs(args, kwargs) == args \o kwargs

\* lines 64-95: the entries in the order the three loops append them
ExpandEntries(params, states, flat_args, overrides) ==
  [i \in 1..Len(params) |-> ParamEntry(params[i])]
    \o [i \in 1..Len(states) |-> StateEntry(states[i])]
    \o [i \in 1..Len(flat_args) |-> ArgEntry(flat_args[i], overrides)]

\* the leaves of n objects numbered from base + 1, each a tensor or not
LeafSeqs(base, max) ==
  UNION {{[i \in 1..n |-> [id |-> base + i, tensor |-> t[i]]] : t \in [1..n -> BOOLEAN]}
         : n \in 0..max}

InitExpand ==
  /\ opt_state = EmptyMap
  /\ opt_params = <<>>
  /\ recs = <<>>
  /\ orig_states = EmptyMap
  /\ orig_params = <<>>
  /\ pc = "ex_start"
  /\ rm = NoRm
  /\ cf = NoCf
  /\ \E ps \in LeafSeqs(0, MaxLeaves), ss \in LeafSeqs(10, MaxLeaves),
        as \in LeafSeqs(20, MaxLeaves), ks \in LeafSeqs(30, MaxKwargs) :
       \E ov \in Dicts({x.id : x \in {as[i] : i \in 1..Len(as)} \cup {ks[i] : i \in 1..Len(ks)}},
                       OverridePlacements) :
         ex = [NoEx EXCEPT !.params = ps, !.states = ss, !.args = as, !.kwargs = ks,
                           !.overrides = ov]

\* lines 57-97 when every parameter is a tensor: the converter is called with the
\* values and the schemas
Expand ==
  /\ pc = "ex_start"
  /\ \A i \in 1..Len(ex.params) : ex.params[i].tensor
  /\ LET es == ExpandEntries(ex.params, ex.states, FlatArgs(ex.args, ex.kwargs), ex.overrides)
     IN ex' = [ex EXCEPT !.inps = [i \in 1..Len(es) |-> es[i].inp],
                         !.schemas = [i \in 1..Len(es) |-> es[i].schema],
                         !.result = "converter_called"]
  /\ pc' = "ex_done"
  /\ UNCHANGED <<opt_state, opt_params, recs, orig_states, orig_params, rm, cf>>

\* line 67: a parameter or buffer that is no tensor fails the assertion; the
\* converter is not called
ExpandAssertionError ==
  /\ pc = "ex_start"
  /\ \E i \in 1..Len(ex.params) : ~ex.params[i].tensor
  /\ ex' = [ex EXCEPT !.result = "AssertionError"]
  /\ pc' = "ex_done"
  /\ UNCHANGED <<opt_state, opt_params, recs, orig_states, orig_params, rm, cf>>

NextExpand == Expand \/ ExpandAssertionError

SpecExpand == InitExpand /\ [][NextExpand]_vars

\* C5: expand passes the converter exactly P+S+A values and P+S+A schemas, in the
\* order parameters, state leaves, arguments (positional, then keyword values);
\* every parameter and state entry is Replicate, every tensor argument without a
\* registered override is Shard(0), and every non-tensor argument takes one slot
\* as an empty placeholder tensor with a Shard(0) schema.
C5_ExpandPlacement ==
  ex.result = "converter_called" =>
    LET P == Len(ex.params)
        S == Len(ex.states)
        flat == ex.args \o ex.kwargs
        A == Len(flat)
    IN /\ Len(ex.inps) = P + S + A
       /\ Len(ex.schemas) = P + S + A
       /\ \A i \in 1..P : ex.inps[i] = ex.params[i] /\ ex.schemas[i] = <<"Replicate">>
       /\ \A i \in 1..S :
            /\ ex.schemas[P + i] = <<"Replicate">>
            /\ ex.states[i].tensor => ex.inps[P + i] = ex.states[i]
       /\ \A i \in 1..A :
            /\ (flat[i].tensor /\ flat[i].id \notin DOMAIN ex.overrides) =>
                 (ex.inps[P + S + i] = flat[i] /\ ex.schemas[P + S + i] = <<"Shard", 0>>)
            /\ ~flat[i].tensor =>
                 (ex.inps[P + S + i] = EmptyTensor /\ ex.schemas[P + S + i] = <<"Shard", 0>>)
            /\ flat[i].tensor => ex.inps[P + S + i] = flat[i]

\* parameters, states, a sharded tensor argument, an overridden one and a
\* non-tensor keyword value went to the converter
C5_Witness ==
  /\ ex.result = "converter_called"
  /\ Len(ex.params) = 2 /\ Len(ex.states) = 2 /\ Len(ex.args) = 2 /\ Len(ex.kwargs) = 1
  /\ ex.args[1].tensor /\ ex.args[1].id \notin DOMAIN ex.overrides
  /\ ex.args[2].tensor /\ ex.args[2].id \in DOMAIN ex.overrides
  /\ ~ex.kwargs[1].tensor
  /\ ~ex.states[1].tensor

====
